---- MODULE Spec2Model ----
(***************************************************************************)
(* Control-plane daemon of the XDP connection rate limiter                 *)
(* (src/ratelimiting_user.c): start-up (main), the periodic sweep of the   *)
(* window map (delete_stale_entries), the signal-driven teardown           *)
(* (signal_handler, xdp_unlink_bpf_chain), together with the two actors    *)
(* the daemon shares state with: the data plane, which inserts window      *)
(* entries, and the monotonic clock.                                       *)
(*                                                                         *)
(* Strings are sequences of one-character strings.  File descriptors are   *)
(* integers handed out lowest-free-first, so that the source's tests on    *)
(* them (fd < 0, fd > 0, !fd) are kept as written.  __u64 arithmetic is    *)
(* kept modular, with the width scaled down to U64Bits bits.               *)
(***************************************************************************)
EXTENDS Integers, Sequences, FiniteSets, TLC

\* ------------------------------------------------------------------ bounds
U64Bits == 4
MaxTime == 3
MaxKey == 1
MaxMissing == 1
MaxNest == 2
MaxCount == 1

\* ------------------------------------------------------- program constants
\* constants.h: MAP_COUNT, the number of map handles bpf_load fills in.
MAP_COUNT == 6
\* constants.h: buffer_time, the age after which a window entry is stale
\* (scaled to clock ticks).
buffer_time == 1
\* constants.h: delim, the separator of the --ports list.
delim == ","
\* stdlib.h
EXIT_SUCCESS == 0
EXIT_FAILURE == 1

U64Mod == 2 ^ U64Bits
Keys == 0 .. MaxKey
MapIdx == 0 .. (MAP_COUNT - 1)
Signals == {"SIGINT", "SIGTERM", "SIGHUP"}

\* a - b in __u64 arithmetic (line 176: curr_time - buffer_time)
U64Sub(a, b) == (a - b) % U64Mod

VARIABLES
    argv,              \* the command line: [help, rate, map, ports]
    env,               \* what the run meets: [log_ok, maps, keys, signals]
    pc,                \* main's position, or "exited" / "killed" / "crashed"
    exit_status,       \* the status the process ended with (-1: still running)
    exit_at,           \* the position at which the process ended
    rate,              \* main: int rate
    prev_prog_map,     \* static char prev_prog_map[1024]
    ports,             \* main: char ports[2048]
    info,              \* FILE *info: [st: "null" | "open" | "closed", fd]
    prog_fd0,          \* prog_fd[0]
    map_fd,            \* map_fd[0..5]
    prev_prog_map_fd,  \* main: int prev_prog_map_fd
    next_prog_map_fd,  \* main: int next_prog_map_fd
    fds,               \* the process's open file descriptors
    handlers,          \* signals whose disposition is signal_handler
    hstack,            \* running invocations of signal_handler, innermost last
    first_key,         \* delete_stale_entries: first_key
    next_key,          \* delete_stale_entries: next_key
    curr_time,         \* delete_stale_entries: curr_time
    now,               \* CLOCK_MONOTONIC
    prev_link,         \* key 0 of the previous stage's linkage store
    pinned,            \* what the well-known own-linkage path resolves to
    cfg,               \* rl_config_map: key 0
    recv_count,        \* rl_recv_count_map: key 0
    drop_count,        \* rl_drop_count_map: key 0
    ports_map,         \* rl_ports_map: port -> flag
    wkeys,             \* rl_window_map: its keys, in get-next-key order
    wval,              \* rl_window_map: key -> value
    hist               \* observations of the run (what was called, and when;
                       \* prev_open: the descriptors that refer to the previous
                       \* stage's linkage store)

procVars == <<argv, env, pc, exit_status, exit_at, rate, prev_prog_map, ports, info,
              prog_fd0, map_fd, prev_prog_map_fd, next_prog_map_fd, fds,
              handlers, hstack>>
sweepVars == <<first_key, next_key, curr_time>>
storeVars == <<prev_link, pinned, cfg, recv_count, drop_count, ports_map>>
windowVars == <<wkeys, wval>>
vars == <<procVars, sweepVars, storeVars, windowVars, now, hist>>

\* ---------------------------------------------------------------- strings
isspace(c) == c \in {" ", "\t", "\n"}
isdigit(c) == c \in {"0", "1", "2", "3", "4", "5", "6", "7", "8", "9"}
DigitVal(c) ==
    CASE c = "0" -> 0 [] c = "1" -> 1 [] c = "2" -> 2 [] c = "3" -> 3
      [] c = "4" -> 4 [] c = "5" -> 5 [] c = "6" -> 6 [] c = "7" -> 7
      [] c = "8" -> 8 [] c = "9" -> 9

\* get_length: the number of characters before the terminating NUL
get_length(str) == Len(str)

RECURSIVE SkipSpace(_)
SkipSpace(s) ==
    IF s # <<>> /\ isspace(Head(s)) THEN SkipSpace(Tail(s)) ELSE s

RECURSIVE DropTrailingSpace(_)
DropTrailingSpace(s) ==
    IF Len(s) > 1 /\ isspace(s[Len(s)])
    THEN DropTrailingSpace(SubSeq(s, 1, Len(s) - 1))
    ELSE s

\* trim_space: skip leading whitespace, then cut trailing whitespace; the
\* loop "while (end > str && isspace(*end))" never steps below the first
\* character that is left.
trim_space(str) == DropTrailingSpace(SkipSpace(str))

RECURSIVE Digits(_, _)
Digits(s, acc) ==
    IF s # <<>> /\ isdigit(Head(s))
    THEN Digits(Tail(s), 10 * acc + DigitVal(Head(s)))
    ELSE acc

\* strtol(str, &endptr, 10): leading whitespace, an optional sign, then the
\* longest run of digits; 0 when there is none.  The inputs enumerated here
\* stay far below LONG_MAX, so ERANGE does not arise.
strtol(str) ==
    LET s == SkipSpace(str)
        neg == s # <<>> /\ Head(s) = "-"
        t == IF s # <<>> /\ Head(s) \in {"-", "+"} THEN Tail(s) ELSE s
        v == Digits(t, 0)
    IN  IF neg THEN 0 - v ELSE v

\* strtoi: strtol, a warning on stderr for a malformed or out-of-range
\* string, and the value returned in any case, converted to int (a value
\* below 2^31 in magnitude is kept by the conversion).
strtoi(str) == strtol(str)

\* (uint16_t) x
ToUint16(x) == x % 65536

\* strsep(&tmp, delim), repeated to the end: the tokens between delimiters,
\* empty tokens included.
RECURSIVE SplitFrom(_, _, _)
SplitFrom(s, cur, acc) ==
    IF s = <<>> THEN Append(acc, cur)
    ELSE IF Head(s) = delim THEN SplitFrom(Tail(s), <<>>, Append(acc, cur))
    ELSE SplitFrom(Tail(s), Append(cur, Head(s)), acc)

strsep_all(s) == SplitFrom(s, <<>>, <<>>)

\* --------------------------------------------------------- file descriptors
\* The kernel hands out the lowest descriptor that is not open.
LowestFree(open) ==
    CHOOSE n \in 0 .. Cardinality(open) :
        n \notin open /\ \A m \in 0 .. (n - 1) : m \in open

RECURSIVE NthFree(_, _)
NthFree(open, n) ==
    IF n = 1 THEN LowestFree(open)
    ELSE NthFree(open \cup {LowestFree(open)}, n - 1)

\* ------------------------------------------------------------ command line
\* The option arguments the runs are started with.  An option left out and
\* an option given an empty argument leave the same values behind (rate 0,
\* prev_prog_map "", ports ""), so <<>> stands for both.
RateArgs == {<<>>, <<"7">>, <<"-", "7">>, <<" ", "3", "x">>}
MapArgs == {<<>>, <<"/", "p">>}
PortArgs == {<<>>, <<"2", "2", ",", " ", "8", "0">>}
Argvs == [help : BOOLEAN, rate : RateArgs, map : MapArgs, ports : PortArgs]

\* What a run meets: whether the log file can be opened, which of the six
\* maps the loaded object defines, the keys the data plane uses and the
\* signals that are sent to the process.
MapSets == {S \in SUBSET MapIdx : Cardinality(MapIdx \ S) <= MaxMissing}
Envs == [log_ok : BOOLEAN, maps : MapSets, keys : {{}, Keys},
         signals : {{"SIGTERM"}, Signals}]

\* The runs explored.  Every command line and every environment is started
\* without traffic and with one signal; the traffic of the data plane, and
\* signals that interrupt the handler of another signal, are each explored
\* on the plain command line with all six maps defined.
PlainArgv == [help |-> FALSE, rate |-> <<"7">>, map |-> <<"/", "p">>,
              ports |-> <<"2", "2", ",", " ", "8", "0">>]
StartupRun(a, e) == e.keys = {} /\ e.signals = {"SIGTERM"}
TrafficRun(a, e) ==
    /\ a = PlainArgv /\ e.maps = MapIdx /\ e.log_ok
    /\ e.keys = Keys /\ e.signals = {"SIGTERM"}
SignalRun(a, e) ==
    /\ a = PlainArgv /\ e.maps = MapIdx
    /\ e.keys = {} /\ e.signals = Signals

Terminal == {"exited", "killed", "crashed"}
Running == pc \notin Terminal
\* main runs only while no invocation of signal_handler is on the stack
AtMain(l) == pc = l /\ hstack = <<>>

NoHist == [writes |-> [cfg |-> 0, recv |-> 0, drop |-> 0],
           uaf |-> FALSE, close_err |-> FALSE, missing_write |-> FALSE,
           teardown |-> FALSE, prev_open |-> {},
           startW |-> {}, examined |-> {}]

Init ==
    /\ argv \in Argvs
    /\ env \in Envs
    /\ StartupRun(argv, env) \/ TrafficRun(argv, env) \/ SignalRun(argv, env)
    /\ pc = "parse"
    /\ exit_status = -1
    /\ exit_at = "none"
    /\ rate = 0
    /\ prev_prog_map = <<>>
    /\ ports = <<>>
    /\ info = [st |-> "null", fd |-> -1]
    /\ prog_fd0 = 0
    /\ map_fd = [i \in MapIdx |-> 0]
    /\ prev_prog_map_fd = -1
    /\ next_prog_map_fd = -1
    /\ fds = {0, 1, 2}
    /\ handlers = {}
    /\ hstack = <<>>
    /\ first_key = 0
    /\ next_key = 0
    /\ curr_time = 0
    /\ now = 0
    /\ prev_link \in {"none", "other"}
    /\ pinned \in {"none", "stale"}
    /\ cfg = 0
    /\ recv_count = 0
    /\ drop_count = 0
    /\ ports_map = [p \in {} |-> 1]
    /\ wkeys = <<>>
    /\ wval = [k \in Keys |-> 0]
    /\ hist = NoHist

\* exit(status), or return status from main: the low eight bits are the
\* status the parent sees.
ExitProc(status, at) ==
    /\ pc' = "exited"
    /\ exit_status' = status % 256
    /\ exit_at' = at

\* ------------------------------------------------------------------- main
\* lines 244-280: the getopt loop; signal() is not called here, the
\* dispositions are left as they are
ParseArgsThen(disp) ==
    /\ AtMain("parse")
    /\ handlers' = disp
    /\ IF argv.help
       THEN /\ ExitProc(EXIT_FAILURE, "usage")
            /\ UNCHANGED <<rate, prev_prog_map, ports>>
       ELSE /\ rate' = strtoi(argv.rate)
            /\ prev_prog_map' = argv.map
            /\ ports' = argv.ports
            /\ pc' = "setrlimit"
            /\ UNCHANGED <<exit_status, exit_at>>
    /\ UNCHANGED <<argv, env, info, prog_fd0, map_fd, prev_prog_map_fd,
                   next_prog_map_fd, fds, hstack>>
    /\ UNCHANGED <<sweepVars, storeVars, windowVars, now, hist>>

ParseArgsEarlyHandlers == ParseArgsThen(Signals)
ParseArgs == ParseArgsThen(handlers)

\* lines 281-284
SetRlimit ==
    /\ AtMain("setrlimit")
    /\ \E ok \in BOOLEAN :
        IF ok
        THEN pc' = "set_logfile" /\ UNCHANGED <<exit_status, exit_at>>
        ELSE ExitProc(EXIT_FAILURE, "setrlimit")
    /\ UNCHANGED <<argv, env, rate, prev_prog_map, ports, info, prog_fd0, map_fd,
                   prev_prog_map_fd, next_prog_map_fd, fds, handlers, hstack>>
    /\ UNCHANGED <<sweepVars, storeVars, windowVars, now, hist>>

\* line 285 and set_logfile, lines 96-109; main ignores the result
set_logfile ==
    /\ AtMain("set_logfile")
    /\ IF env.log_ok
       THEN /\ info' = [st |-> "open", fd |-> LowestFree(fds)]
            /\ fds' = fds \cup {LowestFree(fds)}
       ELSE UNCHANGED <<info, fds>>
    /\ pc' = "load"
    /\ UNCHANGED <<argv, env, exit_status, exit_at, rate, prev_prog_map, ports,
                   prog_fd0, map_fd, prev_prog_map_fd, next_prog_map_fd,
                   handlers, hstack>>
    /\ UNCHANGED <<sweepVars, storeVars, windowVars, now, hist>>

\* The handles load_bpf_file leaves in map_fd when the object defines the
\* maps in `present`: a descriptor each, in the order of definition, and 0
\* (the array's initial value) where the object defines no such map.
LoadedMapFds(present) ==
    [i \in MapIdx |->
        IF i \in present
        THEN NthFree(fds, Cardinality({j \in present : j <= i}))
        ELSE 0]

\* lines 290-297: load_bpf_file, then the test of prog_fd[0]
LoadBpfFile ==
    /\ AtMain("load")
    /\ \E ok \in BOOLEAN, hasProg \in BOOLEAN :
        IF ~ok
        THEN /\ ExitProc(1, "load")
             /\ UNCHANGED <<map_fd, prog_fd0, fds>>
        ELSE LET m == LoadedMapFds(env.maps)
                 open == fds \cup {m[i] : i \in env.maps}
                 p == IF hasProg THEN LowestFree(open) ELSE 0
             IN  /\ map_fd' = m
                 /\ prog_fd0' = p
                 /\ fds' = IF hasProg THEN open \cup {p} ELSE open
                 /\ IF p = 0
                    THEN ExitProc(1, "prog_fd")
                    ELSE pc' = "obj_get_prev" /\ UNCHANGED <<exit_status, exit_at>>
    /\ UNCHANGED <<argv, env, rate, prev_prog_map, ports, info, prev_prog_map_fd,
                   next_prog_map_fd, handlers, hstack>>
    /\ UNCHANGED <<sweepVars, storeVars, windowVars, now, hist>>

\* lines 300-304: bpf_obj_get(prev_prog_map); an empty path never resolves
ObjGetPrev ==
    /\ AtMain("obj_get_prev")
    /\ \E found \in (IF prev_prog_map = <<>> THEN {FALSE} ELSE BOOLEAN) :
        LET fd == IF found THEN LowestFree(fds) ELSE -1
        IN  /\ prev_prog_map_fd' = fd
            /\ IF fd < 0
               THEN ExitProc(EXIT_FAILURE, "obj_get_prev") /\ UNCHANGED fds
               ELSE /\ fds' = fds \cup {fd}
                    /\ pc' = "update_prev"
                    /\ UNCHANGED <<exit_status, exit_at>>
            /\ hist' = IF fd < 0 THEN hist
                       ELSE [hist EXCEPT !.prev_open = @ \cup {fd}]
    /\ UNCHANGED <<argv, env, rate, prev_prog_map, ports, info, prog_fd0, map_fd,
                   next_prog_map_fd, handlers, hstack>>
    /\ UNCHANGED <<sweepVars, storeVars, windowVars, now>>

\* lines 307-310: bpf_map_update_elem(prev_prog_map_fd, &pkey, &prog_fd[0]),
\* which puts the program prog_fd[0] refers to under key 0; `fatal` is
\* whether its failure ends the process
UpdatePrevThen(fatal) ==
    /\ AtMain("update_prev")
    /\ \E ok \in BOOLEAN :
        IF ok
        THEN /\ prev_link' = "this"
             /\ pc' = "close_prev"
             /\ UNCHANGED <<exit_status, exit_at>>
        ELSE IF fatal
        THEN /\ ExitProc(EXIT_FAILURE, "update_prev")
             /\ UNCHANGED prev_link
        ELSE /\ pc' = "close_prev"
             /\ UNCHANGED <<prev_link, exit_status, exit_at>>
    /\ UNCHANGED <<argv, env, rate, prev_prog_map, ports, info, prog_fd0, map_fd,
                   prev_prog_map_fd, next_prog_map_fd, fds, handlers, hstack>>
    /\ UNCHANGED <<pinned, cfg, recv_count, drop_count, ports_map>>
    /\ UNCHANGED <<sweepVars, windowVars, now, hist>>

UpdatePrevUnchecked == UpdatePrevThen(FALSE)
UpdatePrev == UpdatePrevThen(TRUE)

\* line 312: close(prev_prog_map_fd), which releases the descriptors in
\* `closed`
ClosePrevThen(closed) ==
    /\ AtMain("close_prev")
    /\ fds' = fds \ closed
    /\ hist' = [hist EXCEPT !.prev_open = @ \ closed]
    /\ pc' = "obj_get_next"
    /\ UNCHANGED <<argv, env, exit_status, exit_at, rate, prev_prog_map, ports, info,
                   prog_fd0, map_fd, prev_prog_map_fd, next_prog_map_fd,
                   handlers, hstack>>
    /\ UNCHANGED <<sweepVars, storeVars, windowVars, now>>

ClosePrevSkipped == ClosePrevThen({})
ClosePrev == ClosePrevThen({prev_prog_map_fd})

\* lines 314-316: bpf_obj_get(xdp_rl_ingress_next_prog)
ObjGetNext ==
    /\ AtMain("obj_get_next")
    /\ LET fd == IF pinned # "none" THEN LowestFree(fds) ELSE -1
       IN  /\ next_prog_map_fd' = fd
           /\ IF fd < 0
              THEN pc' = "pin" /\ UNCHANGED fds
              ELSE pc' = "config" /\ fds' = fds \cup {fd}
    /\ UNCHANGED <<argv, env, exit_status, exit_at, rate, prev_prog_map, ports, info,
                   prog_fd0, map_fd, prev_prog_map_fd, handlers, hstack>>
    /\ UNCHANGED <<sweepVars, storeVars, windowVars, now, hist>>

\* lines 317-320: bpf_obj_pin(map_fd[5], xdp_rl_ingress_next_prog); a
\* descriptor that is no map (0, where the handle is missing) cannot be pinned
\* `fatal` is whether a failed pin ends the process
PinNextThen(fatal) ==
    /\ AtMain("pin")
    /\ \E ok \in (IF map_fd[5] = 0 THEN {FALSE} ELSE BOOLEAN) :
        IF ok
        THEN /\ pinned' = "own"
             /\ pc' = "config"
             /\ UNCHANGED <<exit_status, exit_at>>
        ELSE IF fatal
        THEN /\ ExitProc(EXIT_FAILURE, "pin")
             /\ UNCHANGED pinned
        ELSE /\ pc' = "config"
             /\ UNCHANGED <<pinned, exit_status, exit_at>>
    /\ UNCHANGED <<argv, env, rate, prev_prog_map, ports, info, prog_fd0, map_fd,
                   prev_prog_map_fd, next_prog_map_fd, fds, handlers, hstack>>
    /\ UNCHANGED <<prev_link, cfg, recv_count, drop_count, ports_map>>
    /\ UNCHANGED <<sweepVars, windowVars, now, hist>>

PinNextUnchecked == PinNextThen(FALSE)
PinNext == PinNextThen(TRUE)

Count(store) == [hist EXCEPT !.writes[store] = @ + 1]

\* lines 329-337: rl_config_map[0] = rate
WriteConfig ==
    /\ AtMain("config")
    /\ IF map_fd[0] = 0
       THEN ExitProc(-1, "no_config_map") /\ UNCHANGED <<cfg, hist>>
       ELSE \E ok \in BOOLEAN :
            IF ok
            THEN /\ cfg' = rate
                 /\ hist' = Count("cfg")
                 /\ pc' = "recv"
                 /\ UNCHANGED <<exit_status, exit_at>>
            ELSE ExitProc(1, "config") /\ UNCHANGED <<cfg, hist>>
    /\ UNCHANGED <<argv, env, rate, prev_prog_map, ports, info, prog_fd0, map_fd,
                   prev_prog_map_fd, next_prog_map_fd, fds, handlers, hstack>>
    /\ UNCHANGED <<prev_link, pinned, recv_count, drop_count, ports_map>>
    /\ UNCHANGED <<sweepVars, windowVars, now>>

\* lines 339-347: rl_recv_count_map[0] = 0
WriteRecv ==
    /\ AtMain("recv")
    /\ IF map_fd[2] = 0
       THEN ExitProc(-1, "no_recv_map") /\ UNCHANGED <<recv_count, hist>>
       ELSE \E ok \in BOOLEAN :
            IF ok
            THEN /\ recv_count' = 0
                 /\ hist' = Count("recv")
                 /\ pc' = "drop"
                 /\ UNCHANGED <<exit_status, exit_at>>
            ELSE ExitProc(1, "recv") /\ UNCHANGED <<recv_count, hist>>
    /\ UNCHANGED <<argv, env, rate, prev_prog_map, ports, info, prog_fd0, map_fd,
                   prev_prog_map_fd, next_prog_map_fd, fds, handlers, hstack>>
    /\ UNCHANGED <<prev_link, pinned, cfg, drop_count, ports_map>>
    /\ UNCHANGED <<sweepVars, windowVars, now>>

\* lines 349-357: rl_drop_count_map[0] = 0
WriteDrop ==
    /\ AtMain("drop")
    /\ IF map_fd[3] = 0
       THEN ExitProc(-1, "no_drop_map") /\ UNCHANGED <<drop_count, hist>>
       ELSE \E ok \in BOOLEAN :
            IF ok
            THEN /\ drop_count' = 0
                 /\ hist' = Count("drop")
                 /\ pc' = "ports"
                 /\ UNCHANGED <<exit_status, exit_at>>
            ELSE ExitProc(1, "drop") /\ UNCHANGED <<drop_count, hist>>
    /\ UNCHANGED <<argv, env, rate, prev_prog_map, ports, info, prog_fd0, map_fd,
                   prev_prog_map_fd, next_prog_map_fd, fds, handlers, hstack>>
    /\ UNCHANGED <<prev_link, pinned, cfg, recv_count, ports_map>>
    /\ UNCHANGED <<sweepVars, windowVars, now>>

\* The ports update_ports derives from the list: every token between
\* delimiters, trimmed, converted by strtoi and cut to 16 bits.
PortsOf(str) ==
    LET toks == strsep_all(str)
    IN  {ToUint16(strtoi(trim_space(toks[n]))) : n \in 1 .. Len(toks)}

\* The ports whose bpf_map_update_elem call succeeds.  Any of the calls can
\* fail; the failures are followed in the start-up runs, the other runs
\* take the calls to succeed.
PortUpdateOutcomes(str) ==
    IF StartupRun(argv, env) THEN SUBSET PortsOf(str) ELSE {PortsOf(str)}

\* rl_ports_map after update_ports(str) when the calls for `done` succeed
AllowListAfter(done) ==
    [p \in (DOMAIN ports_map) \cup done |->
        IF p \in done THEN 1 ELSE ports_map[p]]

\* lines 358-361 and update_ports, lines 215-228: one
\* bpf_map_update_elem(map_fd[4], &port, &pval) per token, its result ignored
UpdatePorts ==
    /\ AtMain("ports")
    /\ IF get_length(ports) # 0
       THEN IF map_fd[4] = 0
            THEN /\ hist' = [hist EXCEPT !.missing_write = TRUE]
                 /\ UNCHANGED ports_map
            ELSE /\ \E done \in PortUpdateOutcomes(ports) :
                        ports_map' = AllowListAfter(done)
                 /\ UNCHANGED hist
       ELSE UNCHANGED <<ports_map, hist>>
    /\ pc' = "sig_int"
    /\ UNCHANGED <<argv, env, exit_status, exit_at, rate, prev_prog_map, ports, info,
                   prog_fd0, map_fd, prev_prog_map_fd, next_prog_map_fd, fds,
                   handlers, hstack>>
    /\ UNCHANGED <<prev_link, pinned, cfg, recv_count, drop_count>>
    /\ UNCHANGED <<sweepVars, windowVars, now>>

\* signal(sig, signal_handler), then on to position `next`
InstallHandler(at, sig, next) ==
    /\ AtMain(at)
    /\ handlers' = handlers \cup {sig}
    /\ pc' = next
    /\ UNCHANGED <<argv, env, exit_status, exit_at, rate, prev_prog_map, ports, info,
                   prog_fd0, map_fd, prev_prog_map_fd, next_prog_map_fd, fds,
                   hstack>>
    /\ UNCHANGED <<sweepVars, storeVars, windowVars, now, hist>>

\* line 364
InstallSigint == InstallHandler("sig_int", "SIGINT", "sig_term")
\* line 365
InstallSigterm == InstallHandler("sig_term", "SIGTERM", "sig_hup")
\* line 366
InstallSighup == InstallHandler("sig_hup", "SIGHUP", "sleep")

\* line 370: sleep(60) returns; rl_config_map[0] is left holding c
SleepThen(c) ==
    /\ AtMain("sleep")
    /\ pc' = "sweep"
    /\ cfg' = c
    /\ UNCHANGED <<argv, env, exit_status, exit_at, rate, prev_prog_map, ports, info,
                   prog_fd0, map_fd, prev_prog_map_fd, next_prog_map_fd, fds,
                   handlers, hstack>>
    /\ UNCHANGED <<prev_link, pinned, recv_count, drop_count, ports_map>>
    /\ UNCHANGED <<sweepVars, windowVars, now, hist>>

SleepRewritesConfig == SleepThen(0)
Sleep == SleepThen(cfg)

\* -------------------------------------------------- delete_stale_entries
WindowEntries == {<<wkeys[n], wval[wkeys[n]]>> : n \in 1 .. Len(wkeys)}
WindowKeys == {wkeys[n] : n \in 1 .. Len(wkeys)}
IndexOf(k) == CHOOSE n \in 1 .. Len(wkeys) : wkeys[n] = k

\* time_get_ns, lines 151-157
time_get_ns == now

\* lines 163-172: the handle test, the cursor, the clock sample
SweepStart ==
    /\ AtMain("sweep")
    /\ IF map_fd[1] < 0
       THEN /\ ExitProc(EXIT_FAILURE, "no_window_map")
            /\ UNCHANGED <<sweepVars, hist>>
       ELSE /\ first_key' = 0
            /\ next_key' = 0
            /\ curr_time' = time_get_ns
            /\ hist' = [hist EXCEPT !.startW = WindowEntries, !.examined = {}]
            /\ pc' = "sweep_next"
            /\ UNCHANGED <<exit_status, exit_at>>
    /\ UNCHANGED <<argv, env, rate, prev_prog_map, ports, info, prog_fd0, map_fd,
                   prev_prog_map_fd, next_prog_map_fd, fds, handlers, hstack>>
    /\ UNCHANGED <<storeVars, windowVars, now>>

\* bpf_map_get_next_key(map_fd[1], &key, &next_key): -1 for "no such key",
\* otherwise the key that follows `key` in the map's order, and the map's
\* first key when `key` is not in the map.  A descriptor that is no map
\* (0, where the handle is missing) yields an error.
NoKey == -1
GetNextKey(key) ==
    IF map_fd[1] = 0 \/ wkeys = <<>> THEN NoKey
    ELSE IF key \notin WindowKeys THEN wkeys[1]
    ELSE IF IndexOf(key) = Len(wkeys) THEN NoKey
    ELSE wkeys[IndexOf(key) + 1]

\* line 176: next_key < (curr_time - buffer_time), in __u64
IsStale(key, t) == key < U64Sub(t, buffer_time)

\* lines 174-176 and 182: one turn of the loop up to the delete call
SweepNext ==
    /\ AtMain("sweep_next")
    /\ LET nk == GetNextKey(first_key)
       IN  IF nk = NoKey
           THEN /\ pc' = "flush"
                /\ UNCHANGED <<sweepVars, hist>>
           ELSE /\ next_key' = nk
                /\ hist' = [hist EXCEPT !.examined = @ \cup {nk}]
                /\ IF IsStale(nk, curr_time)
                   THEN pc' = "sweep_delete" /\ UNCHANGED first_key
                   ELSE pc' = "sweep_next" /\ first_key' = nk
                /\ UNCHANGED curr_time
    /\ UNCHANGED <<argv, env, exit_status, exit_at, rate, prev_prog_map, ports, info,
                   prog_fd0, map_fd, prev_prog_map_fd, next_prog_map_fd, fds,
                   handlers, hstack>>
    /\ UNCHANGED <<storeVars, windowVars, now>>

\* the window map without key k
WithoutKey(k) == SelectSeq(wkeys, LAMBDA x : x # k)

\* lines 178-182: bpf_map_delete_elem(map_fd[1], &next_key), its failure
\* only logged, and the cursor moved to next_key
SweepDelete ==
    /\ AtMain("sweep_delete")
    /\ IF next_key \in WindowKeys
       THEN /\ wkeys' = WithoutKey(next_key)
            /\ wval' = [wval EXCEPT ![next_key] = 0]
       ELSE UNCHANGED windowVars
    /\ first_key' = next_key
    /\ pc' = "sweep_next"
    /\ UNCHANGED <<argv, env, exit_status, exit_at, rate, prev_prog_map, ports, info,
                   prog_fd0, map_fd, prev_prog_map_fd, next_prog_map_fd, fds,
                   handlers, hstack>>
    /\ UNCHANGED <<next_key, curr_time, storeVars, now, hist>>

\* line 373: fflush(info), and back to sleep; rl_recv_count_map[0] is left
\* holding r
FlushThen(r) ==
    /\ AtMain("flush")
    /\ pc' = "sleep"
    /\ recv_count' = r
    /\ hist' = [hist EXCEPT !.startW = {}, !.examined = {}]
    /\ UNCHANGED <<argv, env, exit_status, exit_at, rate, prev_prog_map, ports, info,
                   prog_fd0, map_fd, prev_prog_map_fd, next_prog_map_fd, fds,
                   handlers, hstack>>
    /\ UNCHANGED <<prev_link, pinned, cfg, drop_count, ports_map>>
    /\ UNCHANGED <<sweepVars, windowVars, now>>

FlushRezeroes == FlushThen(0)
Flush == FlushThen(recv_count)

\* --------------------------------------------------------- signal_handler
Top == hstack[Len(hstack)]
SetTop(f) == [hstack EXCEPT ![Len(hstack)] = f]
\* signal() of glibc keeps the handler installed and blocks the signal
\* while its handler runs; the other two signals are not blocked.
Blocked == {hstack[n].sig : n \in 1 .. Len(hstack)}
InHandler(l) == Running /\ hstack # <<>> /\ Top.hpc = l

\* A signal whose disposition is still the default one ends the process.
SignalDefault(sig) ==
    /\ Running
    /\ sig \in env.signals
    /\ sig \notin handlers
    /\ pc' = "killed"
    /\ exit_at' = "signal"
    /\ UNCHANGED <<argv, env, exit_status, rate, prev_prog_map, ports, info,
                   prog_fd0, map_fd, prev_prog_map_fd, next_prog_map_fd, fds,
                   handlers, hstack>>
    /\ UNCHANGED <<sweepVars, storeVars, windowVars, now, hist>>

\* A handled signal interrupts whatever runs (main, or an invocation of the
\* handler for another signal) and enters signal_handler, line 135.  At
\* most MaxNest invocations are followed at a time.
SignalHandled(sig) ==
    /\ Running
    /\ sig \in env.signals
    /\ sig \in handlers
    /\ sig \notin Blocked
    /\ Len(hstack) < MaxNest
    /\ hstack' = Append(hstack, [sig |-> sig, hpc |-> "h_log", fd |-> -1, i |-> 0])
    /\ hist' = [hist EXCEPT !.teardown = TRUE]
    /\ UNCHANGED <<argv, env, pc, exit_status, exit_at, rate, prev_prog_map, ports,
                   info, prog_fd0, map_fd, prev_prog_map_fd, next_prog_map_fd,
                   fds, handlers>>
    /\ UNCHANGED <<sweepVars, storeVars, windowVars, now>>

\* A write to the log sink (log_info, log_err, log_warn).  Writing through
\* a FILE that fclose has released is undefined: the call may return, or
\* the process may be killed by the fault.
CrashChoices == IF info.st = "closed" THEN BOOLEAN ELSE {FALSE}
NoteSinkUse(h) == IF info.st = "closed" THEN [h EXCEPT !.uaf = TRUE] ELSE h
Crash ==
    /\ pc' = "crashed"
    /\ exit_at' = "signal_handler"
    /\ UNCHANGED <<exit_status, hstack>>

\* line 137: log_info("Received signal %d")
HLog ==
    /\ InHandler("h_log")
    /\ \E crash \in CrashChoices :
        IF crash THEN Crash
        ELSE /\ hstack' = SetTop([Top EXCEPT !.hpc = "h_obj_get"])
             /\ UNCHANGED <<pc, exit_status, exit_at>>
    /\ hist' = NoteSinkUse(hist)
    /\ UNCHANGED <<argv, env, rate, prev_prog_map, ports, info, prog_fd0, map_fd,
                   prev_prog_map_fd, next_prog_map_fd, fds, handlers>>
    /\ UNCHANGED <<sweepVars, storeVars, windowVars, now>>

\* xdp_unlink_bpf_chain, lines 115-116 and 122-124: bpf_obj_get(map_filename)
\* and the test map_fd > 0; the other branch logs and goes on to remove()
HObjGet ==
    /\ InHandler("h_obj_get")
    /\ \E found \in (IF prev_prog_map = <<>> THEN {FALSE} ELSE BOOLEAN) :
        LET fd == IF found THEN LowestFree(fds) ELSE -1
        IN  /\ fds' = IF found THEN fds \cup {fd} ELSE fds
            /\ IF fd > 0
               THEN /\ hstack' = SetTop([Top EXCEPT !.hpc = "h_delete", !.fd = fd])
                    /\ hist' = [hist EXCEPT !.prev_open = @ \cup {fd}]
                    /\ UNCHANGED <<pc, exit_status, exit_at>>
               ELSE /\ \E crash \in CrashChoices :
                        IF crash THEN Crash
                        ELSE /\ hstack' = SetTop([Top EXCEPT !.hpc = "h_remove",
                                                            !.fd = fd])
                             /\ UNCHANGED <<pc, exit_status, exit_at>>
                    /\ hist' = NoteSinkUse(hist)
    /\ UNCHANGED <<argv, env, rate, prev_prog_map, ports, info, prog_fd0, map_fd,
                   prev_prog_map_fd, next_prog_map_fd, handlers>>
    /\ UNCHANGED <<sweepVars, storeVars, windowVars, now>>

\* lines 117-120: bpf_map_delete_elem(map_fd, &key) with key 0; it fails
\* when the entry is not there, which is logged
HDelete ==
    /\ InHandler("h_delete")
    /\ IF prev_link # "none"
       THEN /\ prev_link' = "none"
            /\ hstack' = SetTop([Top EXCEPT !.hpc = "h_remove"])
            /\ UNCHANGED <<pc, exit_status, exit_at, hist>>
       ELSE /\ \E crash \in CrashChoices :
                IF crash THEN Crash
                ELSE /\ hstack' = SetTop([Top EXCEPT !.hpc = "h_remove"])
                     /\ UNCHANGED <<pc, exit_status, exit_at>>
            /\ hist' = NoteSinkUse(hist)
            /\ UNCHANGED prev_link
    /\ UNCHANGED <<argv, env, rate, prev_prog_map, ports, info, prog_fd0, map_fd,
                   prev_prog_map_fd, next_prog_map_fd, fds, handlers>>
    /\ UNCHANGED <<pinned, cfg, recv_count, drop_count, ports_map>>
    /\ UNCHANGED <<sweepVars, windowVars, now>>

\* lines 126-128: remove(xdp_rl_ingress_next_prog); a failure is logged
HRemove ==
    /\ InHandler("h_remove")
    /\ \E ok \in (IF pinned = "none" THEN {FALSE} ELSE BOOLEAN) :
        IF ok
        THEN /\ pinned' = "none"
             /\ hstack' = SetTop([Top EXCEPT !.hpc = "h_close", !.i = 0])
             /\ UNCHANGED <<pc, exit_status, exit_at, hist>>
        ELSE /\ \E crash \in CrashChoices :
                 IF crash THEN Crash
                 ELSE /\ hstack' = SetTop([Top EXCEPT !.hpc = "h_close", !.i = 0])
                      /\ UNCHANGED <<pc, exit_status, exit_at>>
             /\ hist' = NoteSinkUse(hist)
             /\ UNCHANGED pinned
    /\ UNCHANGED <<argv, env, rate, prev_prog_map, ports, info, prog_fd0, map_fd,
                   prev_prog_map_fd, next_prog_map_fd, fds, handlers>>
    /\ UNCHANGED <<prev_link, cfg, recv_count, drop_count, ports_map>>
    /\ UNCHANGED <<sweepVars, windowVars, now>>

\* lines 141-143: close(map_fd[i]) for i = 0 .. MAP_COUNT-1, one call a
\* step; closing a descriptor that is not open fails with EBADF
HClose ==
    /\ InHandler("h_close")
    /\ LET fd == map_fd[Top.i]
       IN  IF fd \in fds
           THEN /\ fds' = fds \ {fd}
                /\ hist' = [hist EXCEPT !.prev_open = @ \ {fd}]
           ELSE hist' = [hist EXCEPT !.close_err = TRUE] /\ UNCHANGED fds
    /\ hstack' = SetTop(IF Top.i + 1 < MAP_COUNT
                        THEN [Top EXCEPT !.i = @ + 1]
                        ELSE [Top EXCEPT !.hpc = "h_fclose", !.i = @ + 1])
    /\ UNCHANGED <<argv, env, pc, exit_status, exit_at, rate, prev_prog_map, ports,
                   info, prog_fd0, map_fd, prev_prog_map_fd, next_prog_map_fd,
                   handlers>>
    /\ UNCHANGED <<sweepVars, storeVars, windowVars, now>>

\* lines 145-146: if (info != NULL) fclose(info); info keeps its value, so
\* a later invocation passes fclose a FILE that is already released
HFclose ==
    /\ InHandler("h_fclose")
    /\ \E crash \in CrashChoices :
        IF crash THEN Crash /\ UNCHANGED <<info, fds>>
        ELSE /\ hstack' = SetTop([Top EXCEPT !.hpc = "h_exit"])
             /\ IF info.st = "open"
                THEN /\ info' = [info EXCEPT !.st = "closed"]
                     /\ fds' = fds \ {info.fd}
                ELSE UNCHANGED <<info, fds>>
             /\ UNCHANGED <<pc, exit_status, exit_at>>
    /\ hist' = NoteSinkUse(hist)
    /\ UNCHANGED <<argv, env, rate, prev_prog_map, ports, prog_fd0, map_fd,
                   prev_prog_map_fd, next_prog_map_fd, handlers>>
    /\ UNCHANGED <<sweepVars, storeVars, windowVars, now>>

\* line 147: exit(EXIT_SUCCESS)
HExit ==
    /\ InHandler("h_exit")
    /\ ExitProc(EXIT_SUCCESS, "signal_handler")
    /\ UNCHANGED <<argv, env, rate, prev_prog_map, ports, info, prog_fd0, map_fd,
                   prev_prog_map_fd, next_prog_map_fd, fds, handlers, hstack>>
    /\ UNCHANGED <<sweepVars, storeVars, windowVars, now, hist>>

\* ------------------------------------------------------- the environment
\* CLOCK_MONOTONIC advances.  signal_handler reads neither the clock nor the
\* window map and main never resumes after it, so the steps of the clock
\* and of the data plane are followed only while main runs.
Tick ==
    /\ Running
    /\ hstack = <<>>
    /\ now < MaxTime
    /\ now' = now + 1
    /\ UNCHANGED <<procVars, sweepVars, storeVars, windowVars, hist>>

\* wkeys with k put in as its n-th key
InsertedAt(k, n) ==
    SubSeq(wkeys, 1, n - 1) \o <<k>> \o SubSeq(wkeys, n, Len(wkeys))

\* The data plane, reached through the previous stage's linkage entry,
\* admits a connection: a window entry under a key of its choosing, whose
\* value is the time of insertion.  Where the map's order puts a new key is
\* the map's business.
DataPlaneInsert ==
    /\ Running
    /\ hstack = <<>>
    /\ prev_link = "this"
    /\ map_fd[1] # 0
    /\ \E k \in env.keys \ WindowKeys, n \in 1 .. (Len(wkeys) + 1) :
        /\ wkeys' = InsertedAt(k, n)
        /\ wval' = [wval EXCEPT ![k] = now]
    /\ UNCHANGED <<procVars, sweepVars, storeVars, now, hist>>

\* The data plane, reached through the previous stage's linkage entry,
\* counts a packet: the receive counter goes up by one, and so does the drop
\* counter when the packet is dropped.  Counting is followed in the runs
\* with traffic, up to MaxCount packets.
DataPlaneCount ==
    /\ Running
    /\ hstack = <<>>
    /\ prev_link = "this"
    /\ env.keys # {}
    /\ map_fd[2] # 0 /\ map_fd[3] # 0
    /\ recv_count < MaxCount
    /\ recv_count' = recv_count + 1
    /\ \E dropped \in BOOLEAN :
        drop_count' = IF dropped THEN drop_count + 1 ELSE drop_count
    /\ UNCHANGED <<prev_link, pinned, cfg, ports_map>>
    /\ UNCHANGED <<procVars, sweepVars, windowVars, now, hist>>

Next ==
    \/ ParseArgs
    \/ SetRlimit
    \/ set_logfile
    \/ LoadBpfFile
    \/ ObjGetPrev
    \/ UpdatePrev
    \/ ClosePrev
    \/ ObjGetNext
    \/ PinNext
    \/ WriteConfig
    \/ WriteRecv
    \/ WriteDrop
    \/ UpdatePorts
    \/ InstallSigint
    \/ InstallSigterm
    \/ InstallSighup
    \/ Sleep
    \/ SweepStart
    \/ SweepNext
    \/ SweepDelete
    \/ Flush
    \/ \E sig \in Signals : SignalDefault(sig)
    \/ \E sig \in Signals : SignalHandled(sig)
    \/ HLog
    \/ HObjGet
    \/ HDelete
    \/ HRemove
    \/ HClose
    \/ HFclose
    \/ HExit
    \/ Tick
    \/ DataPlaneInsert
    \/ DataPlaneCount

Spec == Init /\ [][Next]_vars

\* ------------------------------------------------------------------ phases
\* The phase of the process state machine a position of main belongs to.
MainPhase(l) ==
    CASE l \in {"parse", "setrlimit", "set_logfile"} -> "INIT"
      [] l = "load" -> "LOADING"
      [] l \in {"obj_get_prev", "update_prev", "close_prev", "obj_get_next",
                "pin"} -> "CHAINING"
      [] l \in {"config", "recv", "drop", "ports"} -> "CONFIGURING"
      [] l \in {"sig_int", "sig_term", "sig_hup", "sleep", "sweep",
                "sweep_next", "sweep_delete", "flush"} -> "STEADY"

PhaseOf(l, stack) ==
    IF l \in Terminal THEN "EXIT"
    ELSE IF stack # <<>> THEN "TEARDOWN"
    ELSE MainPhase(l)

Phase == PhaseOf(pc, hstack)

PhaseRank(ph) ==
    CASE ph = "INIT" -> 0 [] ph = "LOADING" -> 1 [] ph = "CHAINING" -> 2
      [] ph = "CONFIGURING" -> 3 [] ph = "STEADY" -> 4 [] ph = "TEARDOWN" -> 5
      [] ph = "EXIT" -> 6

\* The positions at which a fatal set-up error ends the process.
SetupExits == {"setrlimit", "load", "prog_fd", "obj_get_prev", "update_prev",
               "pin", "no_config_map", "config", "no_recv_map", "recv",
               "no_drop_map", "drop"}

\* ------------------------------------------------------------------ claims
SweepReturned == pc = "flush"

\* C1: an entry of the window map whose insertion timestamp t satisfies
\* (now - t) <= bufferTime when the sweep samples the clock is still in the
\* map when the sweep returns.
C1_FreshEntriesSurvive ==
    SweepReturned =>
        \A e \in hist.startW :
            (curr_time - e[2] <= buffer_time) => e \in WindowEntries

\* C2: an entry present when the sweep starts whose insertion timestamp t
\* satisfies t + bufferTime < now is gone when the sweep returns.
C2_StaleEntriesEvicted ==
    SweepReturned =>
        \A e \in hist.startW :
            (e[2] + buffer_time < curr_time) => e \notin WindowEntries

\* C3: a sweep that has returned has examined every key the window map held
\* when the sweep started.
C3_SweepExaminesAllKeys ==
    SweepReturned => {e[1] : e \in hist.startW} \subseteq hist.examined

\* C4: from the moment main has gone past the chain-link step, and as long
\* as it is in CHAINING, CONFIGURING or STEADY, key 0 of the previous
\* stage's linkage store holds this stage's program (prog_fd[0], which is
\* a handle); a process that ended at the resolve or at the write ended
\* with the failure status.
PastChainLink ==
    /\ hstack = <<>>
    /\ \/ pc \in {"close_prev", "obj_get_next", "pin"}
       \/ MainPhase(pc) \in {"CONFIGURING", "STEADY"}
C4_ChainLinked ==
    /\ (Running /\ PastChainLink) => (prev_link = "this" /\ prog_fd0 # 0)
    /\ exit_at \in {"obj_get_prev", "update_prev"} =>
            (pc = "exited" /\ exit_status = EXIT_FAILURE)
C4_Witness ==
    /\ pc = "sleep" /\ hstack = <<>>
    /\ prev_link = "this"
    /\ prog_fd0 # 0

\* C5: once a handled signal has arrived in the sweep loop (all three
\* handlers installed), the process ends only by the handler's exit, with
\* status 0.
C5_TeardownExitsZero ==
    (hist.teardown /\ handlers = Signals /\ ~Running) =>
        (pc = "exited" /\ exit_at = "signal_handler"
            /\ exit_status = EXIT_SUCCESS)

\* C6: a process ended by a fatal set-up error has exit status exactly 1.
C6_FatalSetupExitsOne ==
    (pc = "exited" /\ exit_at \in SetupExits) => exit_status = 1

\* C7: the process is in STEADY (or beyond, in TEARDOWN) only with all six
\* map handles present, and never writes through a missing handle.
C7_AllHandlesValidated ==
    /\ Phase \in {"STEADY", "TEARDOWN"} => \A i \in MapIdx : map_fd[i] # 0
    /\ ~hist.missing_write

\* C8: whatever signals arrive during teardown, the log sink is never used
\* after it has been closed, no close of a map handle fails, and the
\* process ends by exit(0).
C8_TeardownTwiceSafe ==
    /\ ~hist.uaf
    /\ ~hist.close_err
    /\ (hist.teardown /\ handlers = Signals) => pc # "crashed"

\* C9: every step keeps the phase or moves it to the next one in the order
\* INIT, LOADING, CHAINING, CONFIGURING, STEADY, TEARDOWN, or to EXIT; so
\* TEARDOWN is entered from STEADY only.  Before STEADY no handler is
\* installed, and no step before STEADY removes the entry of the previous
\* stage's linkage store or the pinned file.
C9_PhaseStep ==
    /\ \/ Phase' = Phase
       \/ PhaseRank(Phase') = PhaseRank(Phase) + 1
       \/ Phase' = "EXIT"
    /\ PhaseRank(Phase') < 4 => handlers' = {}
    /\ PhaseRank(Phase) < 4 =>
            /\ hstack' = <<>>
            /\ prev_link' \in {prev_link, "this"}
            /\ pinned' \in {pinned, "own"}
C9_PhaseOrder == [][C9_PhaseStep]_vars
C9_Witness ==
    /\ pc = "killed"
    /\ handlers = {}
    /\ prev_link = "this"
    /\ pinned = "own"

\* C10: rl_config_map[0] is written at most once, has been written once
\* with the rate of the command line by the time STEADY is reached, and
\* the value stored is never negative.
C10_ConfigOnceNonNegative ==
    /\ hist.writes.cfg <= 1
    /\ Phase \in {"STEADY", "TEARDOWN"} => (hist.writes.cfg = 1 /\ cfg = rate)
    /\ cfg >= 0

\* The allow-list the command line asks for: the ports of the list's tokens,
\* and nothing when no list is given.
ExpectedAllowList == IF argv.ports = <<>> THEN {} ELSE PortsOf(argv.ports)

\* C11: once start-up is over, rl_ports_map holds exactly one entry, with
\* flag 1, for the value of every token of the --ports list, and no entry
\* when no list was given.
C11_AllowListExact ==
    Phase \in {"STEADY", "TEARDOWN"} =>
        /\ DOMAIN ports_map = ExpectedAllowList
        /\ \A p \in DOMAIN ports_map : ports_map[p] = 1

\* C12: each counter is written by the daemon at most once, in CONFIGURING,
\* with the value 0, and has been written once by the time STEADY is
\* reached; after that write no step of the daemon changes the counter and
\* no step at all decreases it.
C12_Step ==
    /\ hist'.writes.recv <= 1 /\ hist'.writes.drop <= 1
    /\ hist'.writes.recv # hist.writes.recv =>
            (Phase = "CONFIGURING" /\ recv_count' = 0)
    /\ hist'.writes.drop # hist.writes.drop =>
            (Phase = "CONFIGURING" /\ drop_count' = 0)
    /\ Phase' \in {"STEADY", "TEARDOWN"} =>
            (hist'.writes.recv = 1 /\ hist'.writes.drop = 1)
    /\ hist.writes.recv = 1 =>
            /\ recv_count' >= recv_count
            /\ recv_count' # recv_count => procVars' = procVars
    /\ hist.writes.drop = 1 =>
            /\ drop_count' >= drop_count
            /\ drop_count' # drop_count => procVars' = procVars
C12_CountersInitOnce == [][C12_Step]_vars
C12_Witness ==
    /\ pc = "flush" /\ hstack = <<>>
    /\ hist.writes.recv = 1 /\ hist.writes.drop = 1
    /\ recv_count > 0 /\ drop_count > 0

\* Some invocation of signal_handler is past remove(), teardown step 2.
PastRemove ==
    \E n \in 1 .. Len(hstack) : hstack[n].hpc \in {"h_close", "h_fclose", "h_exit"}

\* C13: from CONFIGURING until teardown has called remove(), the well-known
\* path resolves to a linkage store; a path that did not resolve at
\* start-up resolves to this stage's own store once main is past the pin;
\* a process ended by a failed pin ended with the failure status.
C13_OwnLinkagePublished ==
    /\ (Phase \in {"CONFIGURING", "STEADY", "TEARDOWN"} /\ ~PastRemove) =>
            pinned # "none"
    /\ (AtMain("config") /\ next_prog_map_fd < 0) => pinned = "own"
    /\ exit_at = "pin" => (pc = "exited" /\ exit_status = EXIT_FAILURE)
C13_Witness ==
    /\ AtMain("config")
    /\ next_prog_map_fd < 0
    /\ pinned = "own"

\* C14: in every turn of the sweep's loop the entry returned by the
\* traversal is deleted if and only if its stored value is below
\* curr_time - buffer_time, whatever its key.
C14_Step ==
    (AtMain("sweep_next") /\ (pc' = "sweep_delete" \/ first_key' # first_key)) =>
        ((pc' = "sweep_delete") <=>
            (wval[GetNextKey(first_key)] < U64Sub(curr_time, buffer_time)))
C14_DecisionByTimestamp == [][C14_Step]_vars

\* C15: a step of the daemon inside STEADY leaves the config store, the
\* counters, the allow-list, the previous stage's linkage entry and the
\* pinned linkage as they are, and adds no entry to the window map nor
\* changes one.
C15_Step ==
    (Phase = "STEADY" /\ Phase' = "STEADY"
            /\ (pc' # pc \/ sweepVars' # sweepVars)) =>
        /\ storeVars' = storeVars
        /\ WindowEntries' \subseteq WindowEntries
C15_SteadyFrame == [][C15_Step]_vars
C15_Witness ==
    /\ AtMain("sweep_next")
    /\ \E e \in hist.startW : e[1] = first_key /\ e[1] \notin WindowKeys
    /\ cfg = rate /\ rate # 0
    /\ recv_count > 0

\* The positions inside the loop of delete_stale_entries, and just after it.
SweepPositions == {"sweep_next", "sweep_delete", "flush"}

\* C16: the sweep goes past its handle test only with the window-map
\* handle present; without it the process has ended, with the failure
\* status.
C16_MissingWindowHandleFatal ==
    /\ pc \in SweepPositions => map_fd[1] # 0
    /\ exit_at = "no_window_map" => (pc = "exited" /\ exit_status = EXIT_FAILURE)

\* C17: when main looks up its own linkage store, and in every state of
\* CONFIGURING and STEADY, no descriptor of the process refers to the
\* previous stage's linkage store.
C17_PrevHandleClosed ==
    /\ AtMain("obj_get_next") => hist.prev_open = {}
    /\ Phase \in {"CONFIGURING", "STEADY"} => hist.prev_open = {}
C17_Witness ==
    /\ AtMain("sleep")
    /\ prev_link = "this"
    /\ hist.prev_open = {}
    /\ prev_prog_map_fd >= 0
    /\ next_prog_map_fd = prev_prog_map_fd

\* C18: while the process runs, the previous stage's linkage entry refers
\* to this stage only once rl_config_map holds the rate and both counters
\* have been zeroed; and a counter is zeroed only while it still holds 0.
C18_Step ==
    /\ (Running' /\ prev_link' = "this") =>
            /\ hist'.writes.cfg = 1 /\ cfg' = rate'
            /\ hist'.writes.recv = 1
            /\ hist'.writes.drop = 1
    /\ hist'.writes.recv # hist.writes.recv => recv_count = 0
    /\ hist'.writes.drop # hist.writes.drop => drop_count = 0
C18_ConfiguredBeforeLinked == [][C18_Step]_vars

\* The fatal set-up errors that come after the chain-link write.
LateSetupExits == {"pin", "no_config_map", "config", "no_recv_map", "recv",
                   "no_drop_map", "drop"}

\* C19: a process ended by a fatal set-up error that came after the
\* chain-link write leaves the previous stage's linkage entry not referring
\* to this stage.
C19_NoDanglingSuccessor ==
    (pc = "exited" /\ exit_at \in LateSetupExits) => prev_link # "this"

\* C20: in STEADY the store pinned at the well-known path is this stage's
\* own (map_fd[5]), and the process holds no descriptor obtained by
\* resolving that path.
C20_PinnedStoreIsOwn ==
    Phase = "STEADY" => (pinned = "own" /\ next_prog_map_fd < 0)

====
